---------------------------- MODULE Spec2Model ----------------------------
(***************************************************************************)
(* A model of the Phase 1.5 chess engine (src/Phase1/Phase1.5.py): the     *)
(* 8x8 board of one-character squares, pseudo-legal move geometry, the     *)
(* attack test, the legality filter, make/unmake, the material evaluation, *)
(* alpha-beta search, perft and the command loop.                          *)
(*                                                                         *)
(* A board is a function  board[r][c]  with r, c in 0..7 and row 0 = rank  *)
(* 8, exactly as the list of lists of the source.  A move is the tuple     *)
(* <<r1, c1, r2, c2>>.  Python's None is the empty tuple.         *)
(***************************************************************************)
EXTENDS Integers, Sequences, FiniteSets, TLC

WHITE_PIECES == {"P", "R", "N", "B", "Q", "K"}
BLACK_PIECES == {"p", "r", "n", "b", "q", "k"}
Squares == WHITE_PIECES \cup BLACK_PIECES \cup {"."}

None == <<>>

isupper(p) == p \in WHITE_PIECES
islower(p) == p \in BLACK_PIECES

upper(p) ==
  CASE p \in {"P", "p"} -> "P"
    [] p \in {"R", "r"} -> "R"
    [] p \in {"N", "n"} -> "N"
    [] p \in {"B", "b"} -> "B"
    [] p \in {"Q", "q"} -> "Q"
    [] p \in {"K", "k"} -> "K"
    [] OTHER -> p

PIECE_VALUES(pu) ==
  CASE pu = "P" -> 100
    [] pu = "N" -> 320
    [] pu = "B" -> 330
    [] pu = "R" -> 500
    [] pu = "Q" -> 900
    [] pu = "K" -> 20000

abs(x) == IF x < 0 THEN -x ELSE x
max(a, b) == IF a >= b THEN a ELSE b
min(a, b) == IF a <= b THEN a ELSE b

\* list("rnbqkbnr"): a row given as a 1-based tuple, re-indexed from 0
Row(s) == [c \in 0..7 |-> s[c + 1]]

starting_board ==
  [r \in 0..7 |->
     CASE r = 0 -> Row(<<"r", "n", "b", "q", "k", "b", "n", "r">>)
       [] r = 1 -> Row(<<"p", "p", "p", "p", "p", "p", "p", "p">>)
       [] r = 6 -> Row(<<"P", "P", "P", "P", "P", "P", "P", "P">>)
       [] r = 7 -> Row(<<"R", "N", "B", "Q", "K", "B", "N", "R">>)
       [] OTHER -> Row(<<".", ".", ".", ".", ".", ".", ".", ".">>)]

in_bounds(r, c) == 0 <= r /\ r < 8 /\ 0 <= c /\ c < 8

sign(a, b) == IF b = a THEN 0 ELSE IF b > a THEN 1 ELSE -1

\* range(1, steps - 1): the square next to the target is not looked at
clear_path_short(board, r1, c1, r2, c2) ==
  LET dr == sign(r1, r2)
      dc == sign(c1, c2)
      steps == max(abs(r2 - r1), abs(c2 - c1))
  IN  \A i \in 1..(steps - 2) : board[r1 + dr * i][c1 + dc * i] = "."

clear_path(board, r1, c1, r2, c2) ==
  LET dr == sign(r1, r2)
      dc == sign(c1, c2)
      steps == max(abs(r2 - r1), abs(c2 - c1))
  IN  \A i \in 1..(steps - 1) : board[r1 + dr * i][c1 + dc * i] = "."

is_pseudo_legal(board, r1, c1, r2, c2) ==
  IF ~(in_bounds(r1, c1) /\ in_bounds(r2, c2)) THEN FALSE
  ELSE
  LET piece == board[r1][c1]
      target == board[r2][c2]
      dr == r2 - r1
      dc == c2 - c1
      pu == upper(piece)
  IN  IF piece = "." THEN FALSE
      ELSE IF target # "." /\ (isupper(target) = isupper(piece)) THEN FALSE
      ELSE IF pu = "P" THEN
        LET color_white == isupper(piece)
            direction == IF color_white THEN -1 ELSE 1
            start_row == IF color_white THEN 6 ELSE 1
        IN  IF dc = 0 THEN
              IF dr = direction /\ target = "." THEN TRUE
              ELSE IF r1 = start_row /\ dr = 2 * direction
                      /\ board[r1 + direction][c1] = "." /\ target = "."
                   THEN TRUE
              ELSE FALSE
            ELSE IF abs(dc) = 1 /\ dr = direction /\ target # "." THEN TRUE
            ELSE FALSE
      ELSE IF pu = "N" THEN <<abs(dr), abs(dc)>> \in {<<1, 2>>, <<2, 1>>}
      ELSE IF pu = "B" THEN
        IF abs(dr) # abs(dc) THEN FALSE ELSE clear_path(board, r1, c1, r2, c2)
      ELSE IF pu = "R" THEN
        IF dr # 0 /\ dc # 0 THEN FALSE ELSE clear_path(board, r1, c1, r2, c2)
      ELSE IF pu = "Q" THEN
        IF abs(dr) = abs(dc) \/ dr = 0 \/ dc = 0
        THEN clear_path(board, r1, c1, r2, c2) ELSE FALSE
      ELSE IF pu = "K" THEN max(abs(dr), abs(dc)) = 1
      ELSE FALSE

knight_offsets ==
  {<<2, 1>>, <<2, -1>>, <<-2, 1>>, <<-2, -1>>,
   <<1, 2>>, <<1, -2>>, <<-1, 2>>, <<-1, -2>>}

\* The first occupied square met walking from (row, col) in direction
\* (dr, dc), or "." when the ray leaves the board: the while loops of
\* square_is_attacked.
RECURSIVE first_on_ray(_, _, _, _, _)
first_on_ray(board, r, c, dr, dc) ==
  IF ~in_bounds(r, c) THEN "."
  ELSE IF board[r][c] # "." THEN board[r][c]
  ELSE first_on_ray(board, r + dr, c + dc, dr, dc)

\* the pawns are looked for on the side they advance to
square_is_attacked_pawns_reversed(board, row, col, attacker_is_white) ==
  \/ \E o \in knight_offsets :
        /\ in_bounds(row + o[1], col + o[2])
        /\ board[row + o[1]][col + o[2]] = (IF attacker_is_white THEN "N" ELSE "n")
  \/ \E dr \in {-1, 0, 1}, dc \in {-1, 0, 1} :
        /\ ~(dr = 0 /\ dc = 0)
        /\ in_bounds(row + dr, col + dc)
        /\ board[row + dr][col + dc] = (IF attacker_is_white THEN "K" ELSE "k")
  \/ IF attacker_is_white
     THEN \E dc \in {-1, 1} :
            in_bounds(row - 1, col + dc) /\ board[row - 1][col + dc] = "P"
     ELSE \E dc \in {-1, 1} :
            in_bounds(row + 1, col + dc) /\ board[row + 1][col + dc] = "p"
  \/ \E d \in {<<1, 0>>, <<-1, 0>>, <<0, 1>>, <<0, -1>>} :
        first_on_ray(board, row + d[1], col + d[2], d[1], d[2])
          \in (IF attacker_is_white THEN {"R", "Q"} ELSE {"r", "q"})
  \/ \E d \in {<<1, 1>>, <<1, -1>>, <<-1, 1>>, <<-1, -1>>} :
        first_on_ray(board, row + d[1], col + d[2], d[1], d[2])
          \in (IF attacker_is_white THEN {"B", "Q"} ELSE {"b", "q"})

\* lines 121-197 (the loop of lines 127-129 computes nothing)
square_is_attacked(board, row, col, attacker_is_white) ==
  \/ \E o \in knight_offsets :
        /\ in_bounds(row + o[1], col + o[2])
        /\ board[row + o[1]][col + o[2]] = (IF attacker_is_white THEN "N" ELSE "n")
  \/ \E dr \in {-1, 0, 1}, dc \in {-1, 0, 1} :
        /\ ~(dr = 0 /\ dc = 0)
        /\ in_bounds(row + dr, col + dc)
        /\ board[row + dr][col + dc] = (IF attacker_is_white THEN "K" ELSE "k")
  \/ IF attacker_is_white
     THEN \E dc \in {-1, 1} :
            in_bounds(row + 1, col + dc) /\ board[row + 1][col + dc] = "P"
     ELSE \E dc \in {-1, 1} :
            in_bounds(row - 1, col + dc) /\ board[row - 1][col + dc] = "p"
  \/ \E d \in {<<1, 0>>, <<-1, 0>>, <<0, 1>>, <<0, -1>>} :
        first_on_ray(board, row + d[1], col + d[2], d[1], d[2])
          \in (IF attacker_is_white THEN {"R", "Q"} ELSE {"r", "q"})
  \/ \E d \in {<<1, 1>>, <<1, -1>>, <<-1, 1>>, <<-1, -1>>} :
        first_on_ray(board, row + d[1], col + d[2], d[1], d[2])
          \in (IF attacker_is_white THEN {"B", "Q"} ELSE {"b", "q"})

\* Row-major scan for the king: the first (r, c) holding it, or None.
find_king(board, white_king) ==
  LET target == IF white_king THEN "K" ELSE "k"
      found == {i \in 0..63 : board[i \div 8][i % 8] = target}
  IN  IF found = {} THEN None
      ELSE LET i == CHOOSE j \in found : \A k \in found : j <= k
           IN  <<i \div 8, i % 8>>

\* the attackers are taken to be of the king's own color
is_in_check_own_side(board, white_king_side) ==
  LET king_pos == find_king(board, white_king_side)
  IN  IF king_pos = None THEN FALSE
      ELSE square_is_attacked(board, king_pos[1], king_pos[2], white_king_side)

is_in_check(board, white_king_side) ==
  LET king_pos == find_king(board, white_king_side)
  IN  IF king_pos = None THEN FALSE
      ELSE square_is_attacked(board, king_pos[1], king_pos[2], ~white_king_side)

\* The nested loops  for r, for c, for r2, for c2  in visiting order.
AllMoves ==
  [i \in 1..4096 |->
     <<((i - 1) \div 512) % 8, ((i - 1) \div 64) % 8,
       ((i - 1) \div 8) % 8, (i - 1) % 8>>]

generate_all_moves(board, white_to_move) ==
  LET keep(m) ==
        LET p == board[m[1]][m[2]]
        IN  /\ p # "."
            /\ (white_to_move => isupper(p))
            /\ (~white_to_move => islower(p))
            /\ is_pseudo_legal(board, m[1], m[2], m[3], m[4])
  IN  SelectSeq(AllMoves, keep)

make_move_on_board(board, move) ==
  LET r1 == move[1]  c1 == move[2]  r2 == move[3]  c2 == move[4]
      captured == board[r2][c2]
      b1 == [board EXCEPT ![r2][c2] = board[r1][c1]]
      b2 == [b1 EXCEPT ![r1][c1] = "."]
  IN  [board |-> b2, captured |-> captured]

\* undo that forgets the captured content
undo_forgets_capture(board, move, captured) ==
  LET r1 == move[1]  c1 == move[2]  r2 == move[3]  c2 == move[4]
      b1 == [board EXCEPT ![r1][c1] = board[r2][c2]]
  IN  [b1 EXCEPT ![r2][c2] = "."]

undo_move_on_board(board, move, captured) ==
  LET r1 == move[1]  c1 == move[2]  r2 == move[3]  c2 == move[4]
      b1 == [board EXCEPT ![r1][c1] = board[r2][c2]]
  IN  [b1 EXCEPT ![r2][c2] = captured]

\* every pseudo-legal move is kept
legal_try_keeps_all(board, white_to_move, m) ==
  [moves |-> <<m>>, board |-> board]

\* The legality filter works on the shared board: each candidate is made in
\* place, tested and unmade.  The board is threaded through the loop and
\* returned beside the list, so that what the filter leaves on the board is
\* part of the model.  legal_try is one pass of the loop body (lines
\* 234-244); legal_range runs the passes lo..hi in order, splitting the range
\* in two to keep the evaluation shallow.
legal_try(board, white_to_move, m) ==
  LET r1 == m[1]  c1 == m[2]  r2 == m[3]  c2 == m[4]
      captured == board[r2][c2]
      made == [[board EXCEPT ![r2][c2] = board[r1][c1]] EXCEPT ![r1][c1] = "."]
      incheck == is_in_check(made, white_to_move)
      undone == [[made EXCEPT ![r1][c1] = made[r2][c2]] EXCEPT ![r2][c2] = captured]
  IN  [moves |-> IF ~incheck THEN <<m>> ELSE <<>>, board |-> undone]

RECURSIVE legal_range(_, _, _, _, _)
legal_range(board, white_to_move, all, lo, hi) ==
  IF lo > hi THEN [moves |-> <<>>, board |-> board]
  ELSE IF lo = hi THEN legal_try(board, white_to_move, all[lo])
  ELSE LET mid == (lo + hi) \div 2
           first == legal_range(board, white_to_move, all, lo, mid)
           rest == legal_range(first.board, white_to_move, all, mid + 1, hi)
       IN  [moves |-> first.moves \o rest.moves, board |-> rest.board]

generate_legal_moves_on(board, white_to_move) ==
  LET all == generate_all_moves(board, white_to_move)
  IN  legal_range(board, white_to_move, all, 1, Len(all))

generate_legal_moves(board, white_to_move) ==
  generate_legal_moves_on(board, white_to_move).moves

\* the sign of the black pieces is forgotten
piece_score_unsigned(p) == IF p = "." THEN 0 ELSE PIECE_VALUES(upper(p))

\* lines 270-272: PIECE_VALUES[p.upper()], for white and against black
piece_score(p) ==
  IF p = "." THEN 0
  ELSE IF isupper(p) THEN PIECE_VALUES(upper(p)) ELSE -PIECE_VALUES(upper(p))

\* the sum over the squares lo..hi of the row-major scan
RECURSIVE evaluate_range(_, _, _)
evaluate_range(board, lo, hi) ==
  IF lo = hi THEN piece_score(board[lo \div 8][lo % 8])
  ELSE LET mid == (lo + hi) \div 2
       IN  evaluate_range(board, lo, mid) + evaluate_range(board, mid + 1, hi)

evaluate(board) == evaluate_range(board, 0, 63)

\* moves.sort(key = 0 if the target is empty else 1, reverse = True): a stable
\* sort, captures first, each group in generation order.
sort_captures_first(board, moves) ==
  LET is_capture(m) == board[m[3]][m[4]] # "."
      is_quiet(m) == board[m[3]][m[4]] = "."
  IN  SelectSeq(moves, is_capture) \o SelectSeq(moves, is_quiet)

\* perft, with the shared board threaded through: the result is the node
\* count and the board as the call leaves it.  perft_range runs the passes
\* lo..hi of  for m in moves  in order.
RECURSIVE perft_on(_, _, _), perft_range(_, _, _, _, _, _)
perft_on(board, depth, white_to_move) ==
  IF depth = 0 THEN [nodes |-> 1, board |-> board]
  ELSE LET g == generate_legal_moves_on(board, white_to_move)
       IN  perft_range(g.board, depth, white_to_move, g.moves, 1, Len(g.moves))

perft_range(board, depth, white_to_move, moves, lo, hi) ==
  IF lo > hi THEN [nodes |-> 0, board |-> board]
  ELSE IF lo = hi
  THEN LET m == moves[lo]
           mk == make_move_on_board(board, m)
           sub == perft_on(mk.board, depth - 1, ~white_to_move)
       IN  [nodes |-> sub.nodes,
            board |-> undo_move_on_board(sub.board, m, mk.captured)]
  ELSE LET mid == (lo + hi) \div 2
           first == perft_range(board, depth, white_to_move, moves, lo, mid)
           rest == perft_range(first.board, depth, white_to_move, moves, mid + 1, hi)
       IN  [nodes |-> first.nodes + rest.nodes, board |-> rest.board]

perft(board, depth, white_to_move) == perft_on(board, depth, white_to_move).nodes

inf == 1000000000
MATE == 999999
ROOT_WINDOW == 9999999

\* the mate score with the sign of the winner's side
terminal_score_flipped(board, white_to_move) ==
  IF is_in_check(board, white_to_move)
  THEN (IF white_to_move THEN MATE ELSE -MATE)
  ELSE 0

\* Lines 286-292: the score of a node whose side to move has no legal move.
terminal_score(board, white_to_move) ==
  IF is_in_check(board, white_to_move)
  THEN (IF white_to_move THEN -MATE ELSE MATE)
  ELSE 0

\* A search frame: the locals of one activation of alphabeta or perft.
\*   at = "entry"   the call was made, its body has not run
\*   at = "loop"    at the head of  for m in moves,  i the next index
\*   at = "return"  the activation has its result (value, best_move)
Frame(fn, depth, alpha, beta, white_to_move) ==
  [fn |-> fn, depth |-> depth, alpha |-> alpha, beta |-> beta,
   white_to_move |-> white_to_move, at |-> "entry", moves |-> <<>>, i |-> 1,
   value |-> 0, best_move |-> None, captured |-> "."]

\* Lines 293-297 / 310: the sorted list and the initial value.
ab_begin(f, board, moves) ==
  [f EXCEPT !.at = "loop", !.moves = sort_captures_first(board, moves), !.i = 1,
            !.value = IF f.white_to_move THEN -inf ELSE inf,
            !.best_move = None]

\* a later move of equal value replaces the best move
ab_update_last_tie_wins(f, val) ==
  LET m == f.moves[f.i]
  IN  IF f.white_to_move
      THEN LET better == val >= f.value
               value == IF better THEN val ELSE f.value
           IN  [f EXCEPT !.value = value,
                         !.best_move = IF better THEN m ELSE f.best_move,
                         !.alpha = max(f.alpha, value)]
      ELSE LET better == val <= f.value
               value == IF better THEN val ELSE f.value
           IN  [f EXCEPT !.value = value,
                         !.best_move = IF better THEN m ELSE f.best_move,
                         !.beta = min(f.beta, value)]

\* the black branch compares as the white branch does
ab_update_black_maximises(f, val) ==
  LET m == f.moves[f.i]
      better == val > f.value
      value == IF better THEN val ELSE f.value
  IN  IF f.white_to_move
      THEN [f EXCEPT !.value = value,
                     !.best_move = IF better THEN m ELSE f.best_move,
                     !.alpha = max(f.alpha, value)]
      ELSE [f EXCEPT !.value = value,
                     !.best_move = IF better THEN m ELSE f.best_move,
                     !.beta = min(f.beta, value)]

\* Lines 302-305 and 315-318: what the caller does with the value of a child.
ab_update(f, val) ==
  LET m == f.moves[f.i]
  IN  IF f.white_to_move
      THEN LET better == val > f.value
               value == IF better THEN val ELSE f.value
           IN  [f EXCEPT !.value = value,
                         !.best_move = IF better THEN m ELSE f.best_move,
                         !.alpha = max(f.alpha, value)]
      ELSE LET better == val < f.value
               value == IF better THEN val ELSE f.value
           IN  [f EXCEPT !.value = value,
                         !.best_move = IF better THEN m ELSE f.best_move,
                         !.beta = min(f.beta, value)]

\* the loop breaks on the cutoff before the move is unmade
ab_resume_breaks_before_undo(f, board, val) ==
  LET restored == undo_move_on_board(board, f.moves[f.i], f.captured)
      g == ab_update(f, val)
  IN  IF g.alpha >= g.beta
      THEN [board |-> board, frame |-> [g EXCEPT !.at = "return"]]
      ELSE [board |-> restored, frame |-> [g EXCEPT !.i = f.i + 1]]

\* Lines 301-307 and 314-320: back in the caller after the recursive call.
\* The move is unmade, the value folded in, and the loop either breaks on
\* alpha >= beta (the frame returns) or goes on to the next move.
ab_resume(f, board, val) ==
  LET restored == undo_move_on_board(board, f.moves[f.i], f.captured)
      g == ab_update(f, val)
  IN  [board |-> restored,
       frame |-> IF g.alpha >= g.beta THEN [g EXCEPT !.at = "return"]
                 ELSE [g EXCEPT !.i = f.i + 1]]

\* Lines 463-464: perft back in the caller.
perft_resume(f, board, sub) ==
  [board |-> undo_move_on_board(board, f.moves[f.i], f.captured),
   frame |-> [f EXCEPT !.value = f.value + sub, !.i = f.i + 1]]

\* alphabeta as a function of its arguments, the shared board threaded
\* through: value, best_move, the board as the call leaves it and the number
\* of calls made (what the call adds to nodes_searched).
RECURSIVE alphabeta_on(_, _, _, _, _), ab_range(_, _, _, _, _)

\* Line 322: return value, best_move
ab_result(done) ==
  [value |-> done.frame.value, best_move |-> done.frame.best_move,
   board |-> done.board, nodes |-> done.nodes]

\* Lines 286-322: the node once its legal moves g.moves are generated
ab_node(g, depth, alpha, beta, white_to_move) ==
  IF g.moves = <<>>
  THEN [value |-> terminal_score(g.board, white_to_move),
        best_move |-> None, board |-> g.board, nodes |-> 1]
  ELSE ab_result(ab_range(g.board,
                          ab_begin(Frame("alphabeta", depth, alpha, beta, white_to_move),
                                   g.board, g.moves),
                          1, 1, Len(g.moves)))

alphabeta_on(board, depth, alpha, beta, white_to_move) ==
  IF depth = 0
  THEN [value |-> evaluate(board), best_move |-> None, board |-> board, nodes |-> 1]
  ELSE ab_node(generate_legal_moves_on(board, white_to_move),
               depth, alpha, beta, white_to_move)

\* Line 284: the calls made so far, kept with the state of the loop
ab_counted(back, nodes) ==
  [board |-> back.board, frame |-> back.frame, nodes |-> nodes]

\* Lines 301-307 and 314-320: the caller with the result sub of the child
ab_child(f, mk, nodes, sub) ==
  ab_counted(ab_resume([f EXCEPT !.captured = mk.captured], sub.board, sub.value),
             nodes + sub.nodes)

\* Lines 299-300 and 312-313: one pass of the loop, the move mk made
ab_pass(f, nodes, mk) ==
  ab_child(f, mk, nodes,
           alphabeta_on(mk.board, f.depth - 1, f.alpha, f.beta, ~f.white_to_move))

\* the passes after those that left first
ab_rest(first, lo, hi) == ab_range(first.board, first.frame, first.nodes, lo, hi)

\* the passes lo..hi of  for m in moves,  in order, until one breaks
ab_range(board, f, nodes, lo, hi) ==
  IF lo > hi \/ f.at = "return" THEN [board |-> board, frame |-> f, nodes |-> nodes]
  ELSE IF lo = hi
  THEN ab_pass(f, nodes, make_move_on_board(board, f.moves[f.i]))
  ELSE ab_rest(ab_range(board, f, nodes, lo, (lo + hi) \div 2),
               (lo + hi) \div 2 + 1, hi)

alphabeta(board, depth, alpha, beta, white_to_move) ==
  LET r == alphabeta_on(board, depth, alpha, beta, white_to_move)
  IN  [value |-> r.value, best_move |-> r.best_move]

(***************************************************************************)
(* Text.  A string is a tuple of one-character strings; the operators      *)
(* below are the Python string operations the command loop and the move    *)
(* parser use, over the printable ASCII characters (the grave accent,      *)
(* which a TLA+ string cannot hold, stands in the table under a name).     *)
(***************************************************************************)
ASCII ==
  <<" ", "!", "\"", "#", "$", "%", "&", "'", "(", ")", "*", "+",
     ",", "-", ".", "/", "0", "1", "2", "3", "4", "5", "6", "7",
     "8", "9", ":", ";", "<", "=", ">", "?", "@", "A", "B", "C",
     "D", "E", "F", "G", "H", "I", "J", "K", "L", "M", "N", "O",
     "P", "Q", "R", "S", "T", "U", "V", "W", "X", "Y", "Z", "[",
     "\\", "]", "^", "_", "GRAVE", "a", "b", "c", "d", "e", "f", "g",
     "h", "i", "j", "k", "l", "m", "n", "o", "p", "q", "r", "s",
     "t", "u", "v", "w", "x", "y", "z", "{", "|", "}", "~" >>

ord(ch) == 31 + (CHOOSE i \in 1..95 : ASCII[i] = ch)
chr(n) == ASCII[n - 31]

isdigit(ch) == ch \in {"0", "1", "2", "3", "4", "5", "6", "7", "8", "9"}

\* str.strip(), blanks being the only whitespace of the alphabet
strip(s) ==
  LET solid == {i \in 1..Len(s) : s[i] # " "}
      first == CHOOSE i \in solid : \A j \in solid : i <= j
      last == CHOOSE i \in solid : \A j \in solid : j <= i
  IN  IF solid = {} THEN <<>> ELSE SubSeq(s, first, last)

\* str.split(): the maximal runs of non-blank characters, in order
split(s) ==
  LET starts == {i \in 1..Len(s) : s[i] # " " /\ (i = 1 \/ s[i - 1] = " ")}
      ends(i) == {j \in i..Len(s) : j = Len(s) \/ s[j + 1] = " "}
      stop(i) == CHOOSE j \in ends(i) : \A k \in ends(i) : j <= k
      nth(k) == CHOOSE i \in starts : Cardinality({j \in starts : j < i}) = k - 1
  IN  [k \in 1..Cardinality(starts) |-> SubSeq(s, nth(k), stop(nth(k)))]

\* s.replace(ch, '')
without(s, ch) == LET keep(x) == x # ch IN SelectSeq(s, keep)

RECURSIVE decimal(_)
decimal(w) ==
  IF w = <<>> THEN 0
  ELSE 10 * decimal(SubSeq(w, 1, Len(w) - 1)) + (ord(w[Len(w)]) - 48)

\* int(w) of a word without blanks: an optional sign, then digits, single
\* underscores allowed between digits.  ok is FALSE where int raises
\* ValueError.
int_of(w) ==
  LET signed == w # <<>> /\ w[1] \in {"+", "-"}
      body == IF signed THEN Tail(w) ELSE w
      digits == without(body, "_")
      wellformed ==
        /\ digits # <<>>
        /\ \A i \in 1..Len(digits) : isdigit(digits[i])
        /\ body[1] # "_" /\ body[Len(body)] # "_"
        /\ \A i \in 1..(Len(body) - 1) : ~(body[i] = "_" /\ body[i + 1] = "_")
  IN  IF ~wellformed THEN [ok |-> FALSE, value |-> 0]
      ELSE [ok |-> TRUE,
            value |-> IF w[1] = "-" THEN -decimal(digits) ELSE decimal(digits)]

\* square_to_index: <<row, col>>, or None where it raises ValueError
square_to_index(sq) ==
  IF Len(sq) # 2 THEN None
  ELSE IF ~isdigit(sq[2]) THEN None
  ELSE <<8 - (ord(sq[2]) - 48), ord(sq[1]) - ord("a")>>

index_to_square(r, c) == <<chr(c + ord("a")), chr(48 + 8 - r)>>

files == {"a", "b", "c", "d", "e", "f", "g", "h"}

\* the squares in the order of  for r in range(8): for c in range(8)
AllSquares == [i \in 1..64 |-> <<(i - 1) \div 8, (i - 1) % 8>>]

\* lines 428-437: the king-safety test of an algebraic move, made and unmade
\* on the shared board
parse_king_safety(board, r1, c1, r2, c2, white_to_move) ==
  LET captured == board[r2][c2]
      made == [[board EXCEPT ![r2][c2] = board[r1][c1]] EXCEPT ![r1][c1] = "."]
      illegal == is_in_check(made, white_to_move)
      undone == [[made EXCEPT ![r1][c1] = made[r2][c2]] EXCEPT ![r2][c2] = captured]
  IN  [move |-> IF illegal THEN None ELSE <<r1, c1, r2, c2>>, board |-> undone]

\* lines 366-437: the algebraic form
parse_algebraic(board, s, white_to_move) ==
  LET has_letter == s # <<>> /\ s[1] \in {"N", "B", "R", "Q", "K", "n", "b", "r", "q", "k"}
      piece_letter == IF has_letter THEN upper(s[1]) ELSE "P"
      desired_color_white == IF has_letter THEN isupper(s[1]) ELSE white_to_move
      s_body == without(without(without(IF has_letter THEN Tail(s) ELSE s, "x"), "+"), "#")
      dest == SubSeq(s_body, Len(s_body) - 1, Len(s_body))
      to == square_to_index(dest)
      fits(q) ==
        LET p == board[q[1]][q[2]]
        IN  /\ p # "."
            /\ (desired_color_white => isupper(p))
            /\ (~desired_color_white => islower(p))
            /\ upper(p) = piece_letter
            /\ is_pseudo_legal(board, q[1], q[2], to[1], to[2])
      candidates == SelectSeq(AllSquares, fits)
      disamb == SubSeq(s_body, 1, Len(s_body) - 2)
      named(q) ==
        LET filec == chr(q[2] + ord("a"))
            rankc == chr(48 + 8 - q[1])
        IN  disamb \in {<<filec>>, <<rankc>>, <<filec, rankc>>}
      filtered == SelectSeq(candidates, named)
      chosen == IF disamb # <<>> /\ filtered # <<>> THEN filtered ELSE candidates
  IN  IF Len(s_body) < 2 THEN [move |-> None, board |-> board]
      ELSE IF to = None THEN [move |-> None, board |-> board]
      ELSE IF candidates = <<>> THEN [move |-> None, board |-> board]
      ELSE IF desired_color_white # white_to_move THEN [move |-> None, board |-> board]
      ELSE parse_king_safety(board, chosen[1][1], chosen[1][2], to[1], to[2],
                             white_to_move)

\* parse_user_move: the move and the board as the call leaves it
parse_user_move(board, move_str, white_to_move) ==
  LET s == strip(move_str)
      no == [move |-> None, board |-> board]
  IN  IF Len(s) = 4 /\ s[1] \in files /\ s[3] \in files
      THEN LET from == square_to_index(SubSeq(s, 1, 2))
               to == square_to_index(SubSeq(s, 3, 4))
           IN  IF from = None \/ to = None THEN no
               ELSE IF is_pseudo_legal(board, from[1], from[2], to[1], to[2])
               THEN [move |-> <<from[1], from[2], to[1], to[2]>>, board |-> board]
               ELSE no
      ELSE IF s \in {<<"O", "-", "O">>, <<"o", "-", "o">>, <<"0", "-", "0">>}
      THEN IF white_to_move
           THEN IF board[7][4] = "K" /\ board[7][7] = "R"
                   /\ board[7][5] = "." /\ board[7][6] = "."
                THEN [move |-> <<7, 4, 7, 6>>, board |-> board] ELSE no
           ELSE IF board[0][4] = "k" /\ board[0][7] = "r"
                   /\ board[0][5] = "." /\ board[0][6] = "."
                THEN [move |-> <<0, 4, 0, 6>>, board |-> board] ELSE no
      ELSE IF s \in {<<"O", "-", "O", "-", "O">>, <<"o", "-", "o", "-", "o">>,
                     <<"0", "-", "0", "-", "0">>}
      THEN IF white_to_move
           THEN IF board[7][4] = "K" /\ board[7][0] = "R" /\ board[7][1] = "."
                   /\ board[7][2] = "." /\ board[7][3] = "."
                THEN [move |-> <<7, 4, 7, 2>>, board |-> board] ELSE no
           ELSE IF board[0][4] = "k" /\ board[0][0] = "r" /\ board[0][1] = "."
                   /\ board[0][2] = "." /\ board[0][3] = "."
                THEN [move |-> <<0, 4, 0, 2>>, board |-> board] ELSE no
      ELSE parse_algebraic(board, s, white_to_move)

(***************************************************************************)
(* The command loop.  out is the first line a command prints ("board" for  *)
(* the diagram of show_board).                                             *)
(***************************************************************************)
MaxPly == 4

\* the command lines the user types.  The depths are those of the contract
\* (depth >= 0): with a negative depth neither perft nor alphabeta reaches
\* depth == 0 and the program ends in a RecursionError.
Cmds ==
  {
    <<"s", "h", "o", "w">>,
    <<"q", "u", "i", "t">>,
    <<>>,
    <<"p", "e", "r", "f", "t", " ", "1">>,
    <<"g", "o", " ", "d", "e", "p", "t", "h", " ", "0">>,
    <<"g", "o", " ", "d", "e", "p", "t", "h", " ", "1">>,
    <<"p", "e", "r", "f", "t", " ", "x">>,
    <<"g", "o", " ", "d", "e", "p", "t", "h">>,
    <<"e", "2", "e", "3">>,
    <<"e", "7", "e", "5">>,
    <<"d", "1", "h", "5">>,
    <<"f", "7", "f", "6">>,
    <<"h", "5", "e", "8">>,
    <<"e", "2", "e", "9">>,
    <<"e", "7", "e", "6">>,
    <<"d", "7", "d", "5">>,
    <<"e", "4">>,
    <<"e", "x", "d", "5">>,
    <<"O", "-", "O", "-", "O">>,
    <<"N", "f", "3">>,
    <<"n", "f", "6">>,
    <<"Q", "h", "5">>,
    <<"Q", "x", "e", "8">>,
    <<"O", "-", "O">>,
    <<" ", "e", "2", "e", "3", " ">> 
  }

quit_word == <<"q", "u", "i", "t">>
show_word == <<"s", "h", "o", "w">>
perft_word == <<"p", "e", "r", "f", "t">>
go_word == <<"g", "o">>
depth_word == <<"d", "e", "p", "t", "h">>

\* the branch of the if-chain of lines 484-525 a stripped command takes
kind(cmd) ==
  LET parts == split(cmd)
  IN  IF cmd = <<>> THEN "empty"
      ELSE IF cmd = quit_word THEN "quit"
      ELSE IF cmd = show_word THEN "show"
      ELSE IF parts[1] = perft_word /\ Len(parts) = 2 THEN "perft"
      ELSE IF parts[1] = go_word /\ Len(parts) = 3 /\ parts[2] = depth_word THEN "go"
      ELSE "move"

\* the branch each command line takes
Dispatch == [line \in Cmds |-> kind(strip(line))]

\* the rejected move is left on the board
user_check_leaves_rejected(board, mv, white_to_move, mk) ==
  IF is_in_check(mk.board, ~white_to_move)
  THEN [board |-> mk.board, white_to_move |-> white_to_move,
        out |-> "Illegal move: king would be in check.", played |-> 0]
  ELSE [board |-> mk.board, white_to_move |-> ~white_to_move,
        out |-> "board", played |-> 1]

\* lines 541-554: the move mk made, tested, and kept or taken back.  The
\* test of line 543 is  is_in_check(board, not white_to_move)  with
\* white_to_move not yet flipped: it asks about the king of the side that
\* did not move.
user_check(board, mv, white_to_move, mk) ==
  IF is_in_check(mk.board, ~white_to_move)
  THEN [board |-> undo_move_on_board(mk.board, mv, mk.captured),
        white_to_move |-> white_to_move,
        out |-> "Illegal move: king would be in check.", played |-> 0]
  ELSE [board |-> mk.board, white_to_move |-> ~white_to_move,
        out |-> "board", played |-> 1]

\* lines 526-554: the parsed move
user_apply(board, mv, white_to_move) ==
  IF mv = None
  THEN [board |-> board, white_to_move |-> white_to_move,
        out |-> "Illegal or ambiguous move.", played |-> 0]
  ELSE IF board[mv[1]][mv[2]] = "."
  THEN [board |-> board, white_to_move |-> white_to_move,
        out |-> "No piece on source.", played |-> 0]
  ELSE IF white_to_move /\ ~isupper(board[mv[1]][mv[2]])
  THEN [board |-> board, white_to_move |-> white_to_move,
        out |-> "Illegal: it's White's turn.", played |-> 0]
  ELSE IF ~white_to_move /\ ~islower(board[mv[1]][mv[2]])
  THEN [board |-> board, white_to_move |-> white_to_move,
        out |-> "Illegal: it's Black's turn.", played |-> 0]
  ELSE user_check(board, mv, white_to_move, make_move_on_board(board, mv))

\* line 525: the shared board as the parser leaves it
user_parsed(parsed, white_to_move) ==
  user_apply(parsed.board, parsed.move, white_to_move)

\* lines 525-554: a user move
user_move(board, white_to_move, cmd) ==
  user_parsed(parse_user_move(board, cmd, white_to_move), white_to_move)

\* lines 512-522: the result r of the search, played or reported
go_play(r, white_to_move) ==
  IF r.best_move = None
  THEN [board |-> r.board, white_to_move |-> white_to_move,
        out |-> "No legal moves available.", played |-> 0,
        nodes |-> r.nodes, searched |-> TRUE]
  ELSE [board |-> make_move_on_board(r.board, r.best_move).board,
        white_to_move |-> ~white_to_move, out |-> "Engine plays",
        played |-> 1, nodes |-> r.nodes, searched |-> TRUE]

\* lines 503-511: go depth N
go_search(board, white_to_move, d) ==
  IF ~d.ok
  THEN [board |-> board, white_to_move |-> white_to_move, out |-> "bad depth",
        played |-> 0, nodes |-> 0, searched |-> FALSE]
  ELSE go_play(alphabeta_on(board, d.value, -ROOT_WINDOW, ROOT_WINDOW, white_to_move),
               white_to_move)

\* lines 503-508: the depth is the third word
go_depth(board, white_to_move, parts) ==
  go_search(board, white_to_move, int_of(parts[3]))

\* lines 492-502: perft N
\* lines 498-501
perft_run(board, white_to_move, d) ==
  IF ~d.ok THEN [board |-> board, out |-> "bad depth"]
  ELSE [board |-> perft_on(board, d.value, white_to_move).board, out |-> "perft"]

perft_cmd(board, white_to_move, parts) ==
  perft_run(board, white_to_move, int_of(parts[2]))

(***************************************************************************)
(* State.                                                                  *)
(*   board, white_to_move   the one shared board and the side to move      *)
(*   nodes_searched         the global call counter of alphabeta           *)
(*   pc                     where the program is                           *)
(*   stack                  the activations of the running recursion       *)
(*   root                   the arguments of the outermost call            *)
(*   ret                    what the last finished call returned           *)
(*   out                    the message the command loop printed last      *)
(*   moves_played           the moves the command loop has accepted        *)
(***************************************************************************)
VARIABLES board, white_to_move, nodes_searched, pc, stack, root, ret, out,
          moves_played

vars == <<board, white_to_move, nodes_searched, pc, stack, root, ret, out,
          moves_played>>

\* make_move_on_board applied move after move from the starting position
RECURSIVE PlayMoves(_, _)
PlayMoves(b, ms) ==
  IF ms = <<>> THEN b
  ELSE PlayMoves(make_move_on_board(b, Head(ms)).board, Tail(ms))

\* 1. e4 d5 2. Nf3 Bg4 3. Bb5+ : captures both ways, a pin and a check
OpenGame ==
  PlayMoves(starting_board,
            << <<6, 4, 4, 4>>, <<1, 3, 3, 3>>, <<7, 6, 5, 5>>,
               <<0, 2, 4, 6>>, <<7, 5, 3, 1>> >>)

(***************************************************************************)
(* Make / unmake on its own: any move with both squares on the board is    *)
(* made on a board and then unmade with the captured content returned.     *)
(***************************************************************************)
MakeBoards == {starting_board, OpenGame}

MoveSet == {AllMoves[i] : i \in 1..4096}

InitMake ==
  /\ board \in MakeBoards
  /\ white_to_move = TRUE
  /\ nodes_searched = 0
  /\ pc = "idle"
  /\ stack = <<>>
  /\ root = [board |-> board]
  /\ ret = None
  /\ out = None
  /\ moves_played = 0

Make(m) ==
  /\ pc = "idle"
  /\ LET mk == make_move_on_board(board, m)
     IN  /\ board' = mk.board
         /\ stack' = << [move |-> m, captured |-> mk.captured] >>
  /\ root' = [board |-> board]
  /\ pc' = "made"
  /\ ret' = None
  /\ UNCHANGED <<white_to_move, nodes_searched, out, moves_played>>

Undo ==
  /\ pc = "made"
  /\ board' = undo_move_on_board(board, stack[1].move, stack[1].captured)
  /\ ret' = stack[1]
  /\ stack' = <<>>
  /\ pc' = "undone"
  /\ UNCHANGED <<white_to_move, nodes_searched, root, out, moves_played>>

NextMake == (\E m \in MoveSet : Make(m)) \/ Undo

SpecMake == InitMake /\ [][NextMake]_vars

\* C1: after make_move_on_board and then undo_move_on_board with the captured
\* content that make returned, every one of the 64 squares holds what it held
\* before the make, for every move with both squares on the board.
C1_MakeUndoIdentity ==
  pc = "undone" => \A r \in 0..7, c \in 0..7 : board[r][c] = root.board[r][c]

\* a capture of a piece by a piece was made and unmade
C1_Witness ==
  /\ pc = "undone"
  /\ ret.captured # "."
  /\ root.board[ret.move[1]][ret.move[2]] # "."
  /\ <<ret.move[1], ret.move[2]>> # <<ret.move[3], ret.move[4]>>

(***************************************************************************)
(* The recursion of alphabeta and perft, one step at a time, on the shared *)
(* board.  The outermost call is the one uci_loop makes: alphabeta with    *)
(* the window (-9999999, 9999999), or perft.                               *)
(***************************************************************************)
MaxDepth == 2

\* 1. f3 e5 2. g4 : black mates in one with Qh4
BeforeMate ==
  PlayMoves(starting_board, << <<6, 5, 5, 5>>, <<1, 4, 3, 4>>, <<6, 6, 4, 6>> >>)

\* 1. e4 d5 2. Nc3 : black may take on e4 or push past, with the same value
\* two plies deep
CentreCapture ==
  PlayMoves(starting_board, << <<6, 4, 4, 4>>, <<1, 3, 3, 3>>, <<7, 1, 5, 2>> >>)

\* ... 2... Qh4# : white to move is checkmated
FoolsMate == PlayMoves(BeforeMate, << <<0, 3, 4, 7>> >>)

\* 1. e3 a5 2. Qh5 Ra6 3. Qxa5 h5 4. h4 Rah6 5. Qxc7 f6 6. Qxd7+ Kf7
\* 7. Qxb7 Qd3 8. Qxb8 Qh7 9. Qxc8 Kg6 10. Qe6 : black to move is stalemated
LoydStalemate ==
  PlayMoves(starting_board,
            << <<6, 4, 5, 4>>, <<1, 0, 3, 0>>, <<7, 3, 3, 7>>, <<0, 0, 2, 0>>,
               <<3, 7, 3, 0>>, <<1, 7, 3, 7>>, <<6, 7, 4, 7>>, <<2, 0, 2, 7>>,
               <<3, 0, 1, 2>>, <<1, 5, 2, 5>>, <<1, 2, 1, 3>>, <<0, 4, 1, 5>>,
               <<1, 3, 1, 1>>, <<0, 3, 5, 3>>, <<1, 1, 0, 1>>, <<5, 3, 1, 7>>,
               <<0, 1, 0, 2>>, <<1, 5, 2, 6>>, <<0, 2, 2, 4>> >>)

\* 1. e4 e5 2. Qh5 Nc6 3. Bc4 Nf6 4. Qxf7# : black to move is checkmated
ScholarsMate ==
  PlayMoves(starting_board,
            << <<6, 4, 4, 4>>, <<1, 4, 3, 4>>, <<7, 3, 3, 7>>, <<0, 1, 2, 2>>,
               <<7, 5, 4, 2>>, <<0, 6, 2, 5>>, <<3, 7, 1, 5>> >>)

\* the reference counts of perft from the starting position, depth 1, 2, 3
PerftReference == <<20, 400, 8902>>

\* The outermost calls: each position with the side whose turn it is there.
SearchRoots ==
  { [board |-> starting_board, white_to_move |-> TRUE],
    [board |-> OpenGame, white_to_move |-> FALSE],
    [board |-> BeforeMate, white_to_move |-> FALSE],
    [board |-> FoolsMate, white_to_move |-> TRUE],
    [board |-> ScholarsMate, white_to_move |-> FALSE],
    [board |-> LoydStalemate, white_to_move |-> FALSE] }

SearchCalls ==
  { [fn |-> fn, board |-> p.board, depth |-> d, white_to_move |-> p.white_to_move] :
      fn \in {"alphabeta", "perft"}, p \in SearchRoots, d \in 0..MaxDepth }
  \cup
  { [fn |-> "perft", board |-> starting_board, depth |-> d, white_to_move |-> TRUE] :
      d \in 0..Len(PerftReference) }
  \cup
  { [fn |-> "alphabeta", board |-> CentreCapture, depth |-> d, white_to_move |-> FALSE] :
      d \in 0..MaxDepth }

InitSearch ==
  /\ root \in SearchCalls
  /\ board = root.board
  /\ white_to_move = root.white_to_move
  /\ nodes_searched = 0
  /\ pc = "search"
  /\ stack = << Frame(root.fn, root.depth, -ROOT_WINDOW, ROOT_WINDOW,
                      root.white_to_move) >>
  /\ ret = None
  /\ out = None
  /\ moves_played = 0

top == stack[Len(stack)]
caller == stack[Len(stack) - 1]
SetTop(f) == [stack EXCEPT ![Len(stack)] = f]

\* lines 282-284
AB_Leaf ==
  /\ pc = "search" /\ top.fn = "alphabeta" /\ top.at = "entry"
  /\ top.depth = 0
  /\ nodes_searched' = nodes_searched + 1
  /\ stack' = SetTop([top EXCEPT !.at = "return", !.value = evaluate(board),
                                 !.best_move = None])
  /\ UNCHANGED <<board, white_to_move, pc, root, ret, out, moves_played>>

\* lines 282, 285-292
AB_Terminal ==
  /\ pc = "search" /\ top.fn = "alphabeta" /\ top.at = "entry"
  /\ top.depth # 0
  /\ LET g == generate_legal_moves_on(board, top.white_to_move)
     IN  /\ g.moves = <<>>
         /\ board' = g.board
         /\ stack' = SetTop([top EXCEPT !.at = "return",
                               !.value = terminal_score(g.board, top.white_to_move),
                               !.best_move = None])
  /\ nodes_searched' = nodes_searched + 1
  /\ UNCHANGED <<white_to_move, pc, root, ret, out, moves_played>>

\* lines 282, 285, 293-297
AB_Expand ==
  /\ pc = "search" /\ top.fn = "alphabeta" /\ top.at = "entry"
  /\ top.depth # 0
  /\ LET g == generate_legal_moves_on(board, top.white_to_move)
     IN  /\ g.moves # <<>>
         /\ board' = g.board
         /\ stack' = SetTop(ab_begin(top, g.board, g.moves))
  /\ nodes_searched' = nodes_searched + 1
  /\ UNCHANGED <<white_to_move, pc, root, ret, out, moves_played>>

\* lines 298-300: make the next move and call alphabeta on the result
AB_Make ==
  /\ pc = "search" /\ top.fn = "alphabeta" /\ top.at = "loop"
  /\ top.i <= Len(top.moves)
  /\ LET mk == make_move_on_board(board, top.moves[top.i])
     IN  /\ board' = mk.board
         /\ stack' = Append(SetTop([top EXCEPT !.captured = mk.captured]),
                            Frame("alphabeta", top.depth - 1, top.alpha, top.beta,
                                  ~top.white_to_move))
  /\ UNCHANGED <<white_to_move, nodes_searched, pc, root, ret, out, moves_played>>

\* lines 301-306: the child returned, no cutoff, on to the next move
AB_Unmake ==
  /\ pc = "search" /\ Len(stack) >= 2 /\ top.at = "return"
  /\ caller.fn = "alphabeta"
  /\ LET back == ab_resume(caller, board, top.value)
     IN  /\ back.frame.at = "loop"
         /\ board' = back.board
         /\ stack' = Append(SubSeq(stack, 1, Len(stack) - 2), back.frame)
  /\ UNCHANGED <<white_to_move, nodes_searched, pc, root, ret, out, moves_played>>

\* lines 301-308: the child returned and alpha >= beta: break
AB_Cutoff ==
  /\ pc = "search" /\ Len(stack) >= 2 /\ top.at = "return"
  /\ caller.fn = "alphabeta"
  /\ LET back == ab_resume(caller, board, top.value)
     IN  /\ back.frame.at = "return"
         /\ board' = back.board
         /\ stack' = Append(SubSeq(stack, 1, Len(stack) - 2), back.frame)
  /\ UNCHANGED <<white_to_move, nodes_searched, pc, root, ret, out, moves_played>>

\* lines 298, 308: the loop ran out of moves
AB_Exhausted ==
  /\ pc = "search" /\ top.fn = "alphabeta" /\ top.at = "loop"
  /\ top.i > Len(top.moves)
  /\ stack' = SetTop([top EXCEPT !.at = "return"])
  /\ UNCHANGED <<board, white_to_move, nodes_searched, pc, root, ret, out, moves_played>>

\* lines 457-458
P_Leaf ==
  /\ pc = "search" /\ top.fn = "perft" /\ top.at = "entry"
  /\ top.depth = 0
  /\ stack' = SetTop([top EXCEPT !.at = "return", !.value = 1])
  /\ UNCHANGED <<board, white_to_move, nodes_searched, pc, root, ret, out, moves_played>>

\* lines 459-460
P_Expand ==
  /\ pc = "search" /\ top.fn = "perft" /\ top.at = "entry"
  /\ top.depth # 0
  /\ LET g == generate_legal_moves_on(board, top.white_to_move)
     IN  /\ board' = g.board
         /\ stack' = SetTop([top EXCEPT !.at = "loop", !.moves = g.moves,
                                        !.i = 1, !.value = 0])
  /\ UNCHANGED <<white_to_move, nodes_searched, pc, root, ret, out, moves_played>>

\* lines 461-463
P_Make ==
  /\ pc = "search" /\ top.fn = "perft" /\ top.at = "loop"
  /\ top.i <= Len(top.moves)
  /\ LET mk == make_move_on_board(board, top.moves[top.i])
     IN  /\ board' = mk.board
         /\ stack' = Append(SetTop([top EXCEPT !.captured = mk.captured]),
                            Frame("perft", top.depth - 1, top.alpha, top.beta,
                                  ~top.white_to_move))
  /\ UNCHANGED <<white_to_move, nodes_searched, pc, root, ret, out, moves_played>>

\* lines 463-464
P_Unmake ==
  /\ pc = "search" /\ Len(stack) >= 2 /\ top.at = "return"
  /\ caller.fn = "perft"
  /\ LET back == perft_resume(caller, board, top.value)
     IN  /\ board' = back.board
         /\ stack' = Append(SubSeq(stack, 1, Len(stack) - 2), back.frame)
  /\ UNCHANGED <<white_to_move, nodes_searched, pc, root, ret, out, moves_played>>

\* lines 461, 465
P_Exhausted ==
  /\ pc = "search" /\ top.fn = "perft" /\ top.at = "loop"
  /\ top.i > Len(top.moves)
  /\ stack' = SetTop([top EXCEPT !.at = "return"])
  /\ UNCHANGED <<board, white_to_move, nodes_searched, pc, root, ret, out, moves_played>>

\* the outermost call returns to uci_loop (lines 499, 511)
Finish ==
  /\ pc = "search" /\ Len(stack) = 1 /\ top.at = "return"
  /\ ret' = IF top.fn = "perft" THEN [nodes |-> top.value]
            ELSE [value |-> top.value, best_move |-> top.best_move]
  /\ stack' = <<>>
  /\ pc' = "done"
  /\ UNCHANGED <<board, white_to_move, nodes_searched, root, out, moves_played>>

NextSearch ==
  \/ AB_Leaf \/ AB_Terminal \/ AB_Expand \/ AB_Make \/ AB_Unmake \/ AB_Cutoff
  \/ AB_Exhausted
  \/ P_Leaf \/ P_Expand \/ P_Make \/ P_Unmake \/ P_Exhausted
  \/ Finish

SpecSearch == InitSearch /\ [][NextSearch]_vars

\* the two renderings of the recursion agree
SearchAgrees ==
  pc = "done" =>
    IF root.fn = "perft"
    THEN ret.nodes = perft(root.board, root.depth, root.white_to_move)
    ELSE LET r == alphabeta_on(root.board, root.depth, -ROOT_WINDOW, ROOT_WINDOW,
                               root.white_to_move)
         IN  /\ ret = [value |-> r.value, best_move |-> r.best_move]
             /\ nodes_searched = r.nodes
             /\ board = r.board

\* the moves made and not yet unmade: one per activation below the top
PathMoves == [k \in 1..(Len(stack) - 1) |-> stack[k].moves[stack[k].i]]

\* a board with the moves of a path applied, first to last
RECURSIVE Applied(_, _)
Applied(b, path) ==
  IF path = <<>> THEN b
  ELSE LET m == Head(path)
           moved == [r \in 0..7 |-> [c \in 0..7 |->
                       IF <<r, c>> = <<m[3], m[4]>> THEN b[m[1]][m[2]]
                       ELSE IF <<r, c>> = <<m[1], m[2]>> THEN "."
                       ELSE b[r][c]]]
       IN  Applied(moved, Tail(path))

\* the number of nodes of the full tree of legal moves to a depth
RECURSIVE TreeSize(_, _, _)
TreeSize(b, d, w) ==
  IF d = 0 THEN 1 ELSE perft(b, d, w) + TreeSize(b, d - 1, w)

\* C2: search and perft keep the apply / recurse / unapply discipline on the
\* shared board: at the entry of every recursive call of alphabeta or perft
\* the board is the root board with exactly the moves of the current
\* root-to-node path applied, and when the outermost call has returned the
\* board is the board at the call, cutoffs included.
C2_PathDiscipline ==
  /\ (pc = "search" /\ top.at = "entry") => board = Applied(root.board, PathMoves)
  /\ pc = "done" => board = root.board

\* an alpha-beta search that abandoned sibling loops has returned
C2_Witness ==
  /\ pc = "done"
  /\ root.fn = "alphabeta"
  /\ root.depth = 2
  /\ root.board = OpenGame
  /\ nodes_searched < TreeSize(root.board, root.depth, root.white_to_move)

\* the sequences of d legal moves, the side to move alternating
RECURSIVE LegalLines(_, _, _)
LegalLines(b, d, w) ==
  IF d = 0 THEN {<<>>}
  ELSE LET legal == generate_legal_moves(b, w)
       IN  UNION { { <<legal[k]>> \o l :
                       l \in LegalLines(make_move_on_board(b, legal[k]).board,
                                        d - 1, ~w) } :
                   k \in 1..Len(legal) }

\* C4: perft from the standard starting position with white to move returns
\* 1 at depth 0, 20 at depth 1, 400 at depth 2 and 8902 at depth 3; and perft
\* of any board, depth d and side is the number of sequences of d legal moves
\* with the side to move alternating at each ply.
C4_PerftCounts ==
  (pc = "done" /\ root.fn = "perft") =>
    /\ (root.board = starting_board /\ root.white_to_move) =>
          /\ root.depth = 0 => ret.nodes = 1
          /\ root.depth \in 1..Len(PerftReference) =>
               ret.nodes = PerftReference[root.depth]
    /\ ret.nodes = Cardinality(LegalLines(root.board, root.depth, root.white_to_move))

\* perft of depth 3 from the starting position has returned
C4_Witness ==
  /\ pc = "done" /\ root.fn = "perft"
  /\ root.board = starting_board /\ root.white_to_move
  /\ root.depth = 3
  /\ ret.nodes = 8902

\* the king of a side stands on a square the other side attacks
KingAttacked(b, white) ==
  \E r \in 0..7, c \in 0..7 :
     /\ b[r][c] = (IF white THEN "K" ELSE "k")
     /\ square_is_attacked(b, r, c, ~white)

\* C5: at any depth >= 1 a node whose side to move has no legal move returns
\* no move and the score of a forced loss for that side when its king is
\* attacked (-999999 with white to move, +999999 with black to move) and
\* exactly 0 when its king is not attacked.
C5_NoMoveScore ==
  (pc = "search" /\ top.fn = "alphabeta" /\ top.at = "return" /\ top.depth >= 1) =>
    (generate_legal_moves(board, top.white_to_move) = <<>> =>
       /\ top.best_move = None
       /\ top.value = IF KingAttacked(board, top.white_to_move)
                      THEN (IF top.white_to_move THEN -999999 ELSE 999999)
                      ELSE 0)

\* a checkmated white was scored below the root of a depth-2 search
C5_Witness ==
  /\ pc = "search" /\ top.fn = "alphabeta" /\ top.at = "return"
  /\ top.depth = 1 /\ Len(stack) = 2
  /\ top.white_to_move
  /\ board = FoolsMate
  /\ top.value = -999999 /\ top.best_move = None

Max(S) == CHOOSE x \in S : \A y \in S : y <= x
Min(S) == CHOOSE x \in S : \A y \in S : x <= y

\* plain full-width minimax over the set of legal moves
RECURSIVE Minimax(_, _, _)
Minimax(b, d, w) ==
  IF d = 0 THEN evaluate(b)
  ELSE LET legal == generate_legal_moves(b, w)
       IN  IF legal = <<>> THEN terminal_score(b, w)
           ELSE LET vals == { Minimax(make_move_on_board(b, legal[k]).board, d - 1, ~w) :
                                k \in 1..Len(legal) }
                IN  IF w THEN Max(vals) ELSE Min(vals)

\* C6: move ordering and pruning do not change the score: alphabeta called
\* with the root window (-9999999, 9999999) returns the value of plain
\* full-width minimax of the same depth, evaluation and terminal scoring,
\* which does not depend on any order of the moves.
C6_AlphaBetaIsMinimax ==
  (pc = "done" /\ root.fn = "alphabeta") =>
    ret.value = Minimax(root.board, root.depth, root.white_to_move)

\* a search that pruned has returned a move
C6_Witness ==
  /\ pc = "done" /\ root.fn = "alphabeta"
  /\ root.depth >= 2
  /\ ret.best_move # None
  /\ nodes_searched < TreeSize(root.board, root.depth, root.white_to_move)

Count(b, p) == Cardinality({i \in 0..63 : b[i \div 8][i % 8] = p})

\* the signed sum of piece values, white positive and black negative
Material(b) ==
    100 * (Count(b, "P") - Count(b, "p"))
  + 320 * (Count(b, "N") - Count(b, "n"))
  + 330 * (Count(b, "B") - Count(b, "b"))
  + 500 * (Count(b, "R") - Count(b, "r"))
  + 900 * (Count(b, "Q") - Count(b, "q"))
  + 20000 * (Count(b, "K") - Count(b, "k"))

\* C7: search at depth 0 returns the static evaluation (the signed sum of
\* piece values) and no move, whatever the position, also when the side to
\* move is checkmated or stalemated.
C7_DepthZero ==
  (pc = "done" /\ root.fn = "alphabeta" /\ root.depth = 0) =>
    ret = [value |-> Material(root.board), best_move |-> None]

\* depth 0 on the stalemate position, where white is material up
C7_Witness ==
  /\ pc = "done" /\ root.fn = "alphabeta" /\ root.depth = 0
  /\ root.board = LoydStalemate
  /\ generate_legal_moves(root.board, root.white_to_move) = <<>>
  /\ ret.value > 0

(***************************************************************************)
(* The legality filter, one step at a time: generate_legal_moves makes     *)
(* each pseudo-legal move in place on the shared board, tests the mover's  *)
(* king, unmakes the move and keeps it when the king was not in check.     *)
(***************************************************************************)

\* The command loop accepts e2e3 e7e5 d1h5 f7f6 h5e8: black opens the line to
\* its own king and the white queen takes it.  No black king is left.
KingTaken ==
  PlayMoves(starting_board,
            << <<6, 4, 5, 4>>, <<1, 4, 3, 4>>, <<7, 3, 3, 7>>, <<1, 5, 2, 5>>,
               <<3, 7, 0, 4>> >>)

FilterBoards ==
  {starting_board, OpenGame, BeforeMate, FoolsMate, ScholarsMate, LoydStalemate,
   KingTaken}

InitFilter ==
  /\ root \in { [fn |-> "generate_legal_moves", board |-> b, white_to_move |-> w] :
                  b \in FilterBoards, w \in BOOLEAN }
  /\ board = root.board
  /\ white_to_move = root.white_to_move
  /\ nodes_searched = 0
  /\ pc = "filter"
  /\ stack = << [fn |-> root.fn, white_to_move |-> root.white_to_move,
                 at |-> "entry", all |-> <<>>, i |-> 1, moves |-> <<>>,
                 captured |-> ".", incheck |-> None] >>
  /\ ret = None
  /\ out = None
  /\ moves_played = 0

\* lines 232-233
F_Generate ==
  /\ pc = "filter" /\ top.at = "entry"
  /\ stack' = SetTop([top EXCEPT !.at = "loop",
                        !.all = generate_all_moves(board, top.white_to_move),
                        !.i = 1, !.moves = <<>>])
  /\ UNCHANGED <<board, white_to_move, nodes_searched, pc, root, ret, out, moves_played>>

\* lines 234-238
F_Make ==
  /\ pc = "filter" /\ top.at = "loop"
  /\ top.i <= Len(top.all)
  /\ LET m == top.all[top.i]
         r1 == m[1]  c1 == m[2]  r2 == m[3]  c2 == m[4]
     IN  /\ board' = [[board EXCEPT ![r2][c2] = board[r1][c1]] EXCEPT ![r1][c1] = "."]
         /\ stack' = SetTop([top EXCEPT !.at = "made", !.captured = board[r2][c2]])
  /\ UNCHANGED <<white_to_move, nodes_searched, pc, root, ret, out, moves_played>>

\* line 239
F_Test ==
  /\ pc = "filter" /\ top.at = "made"
  /\ stack' = SetTop([top EXCEPT !.at = "tested",
                        !.incheck = is_in_check(board, top.white_to_move)])
  /\ UNCHANGED <<board, white_to_move, nodes_searched, pc, root, ret, out, moves_played>>

\* the captured piece is not put back
filter_undo_loses_capture(b, m, captured) ==
  [[b EXCEPT ![m[1]][m[2]] = b[m[3]][m[4]]] EXCEPT ![m[3]][m[4]] = "."]

\* lines 241-242: the move is unmade whatever the test said
filter_undo(b, m, captured) ==
  [[b EXCEPT ![m[1]][m[2]] = b[m[3]][m[4]]] EXCEPT ![m[3]][m[4]] = captured]

\* lines 241-244, the king was not in check: the move is kept
F_Keep ==
  /\ pc = "filter" /\ top.at = "tested"
  /\ ~top.incheck
  /\ board' = filter_undo(board, top.all[top.i], top.captured)
  /\ stack' = SetTop([top EXCEPT !.at = "loop", !.i = top.i + 1,
                        !.moves = Append(top.moves, top.all[top.i])])
  /\ UNCHANGED <<white_to_move, nodes_searched, pc, root, ret, out, moves_played>>

\* lines 241-243, the king was in check: the move is dropped
F_Drop ==
  /\ pc = "filter" /\ top.at = "tested"
  /\ top.incheck
  /\ board' = filter_undo(board, top.all[top.i], top.captured)
  /\ stack' = SetTop([top EXCEPT !.at = "loop", !.i = top.i + 1])
  /\ UNCHANGED <<white_to_move, nodes_searched, pc, root, ret, out, moves_played>>

\* line 245
F_Return ==
  /\ pc = "filter" /\ top.at = "loop"
  /\ top.i > Len(top.all)
  /\ ret' = top.moves
  /\ stack' = <<>>
  /\ pc' = "done"
  /\ UNCHANGED <<board, white_to_move, nodes_searched, root, out, moves_played>>

NextFilter == F_Generate \/ F_Make \/ F_Test \/ F_Keep \/ F_Drop \/ F_Return

SpecFilter == InitFilter /\ [][NextFilter]_vars

\* the two renderings of the filter agree
FilterAgrees ==
  pc = "done" =>
    LET g == generate_legal_moves_on(root.board, root.white_to_move)
    IN  ret = g.moves /\ board = g.board

Range(q) == {q[k] : k \in 1..Len(q)}

\* C3: every move generate_legal_moves returns is one generate_all_moves
\* returns for the same board and side, and applying it leaves the mover's
\* own king not attacked by the opponent.
C3_LegalSubsetAndSafe ==
  pc = "done" =>
    \A m \in Range(ret) :
       /\ m \in Range(generate_all_moves(root.board, root.white_to_move))
       /\ ~KingAttacked(make_move_on_board(root.board, m).board, root.white_to_move)

\* the filter kept some moves and dropped others
C3_Witness ==
  /\ pc = "done"
  /\ ret # <<>>
  /\ Len(ret) < Len(generate_all_moves(root.board, root.white_to_move))

\* C8: when the king of the queried color is absent from the board,
\* is_in_check surfaces an internal error: it does not hand back a truth
\* value as if the king were there and safe.
C8_KingAbsentIsError ==
  (pc = "filter" /\ top.at = "tested"
     /\ \A r \in 0..7, c \in 0..7 :
           board[r][c] # (IF top.white_to_move THEN "K" ELSE "k"))
  => top.incheck \notin BOOLEAN

\* lines 472-476
Init ==
  /\ board = starting_board
  /\ white_to_move = TRUE
  /\ nodes_searched = 0
  /\ pc = "loop"
  /\ stack = <<>>
  /\ root = None
  /\ ret = None
  /\ out = "board"
  /\ moves_played = 0

Reading == pc = "loop" /\ moves_played < MaxPly

\* lines 484-485
Empty ==
  /\ Reading
  /\ \E line \in Cmds : Dispatch[line] = "empty"
  /\ UNCHANGED vars

\* lines 486-487, 556 (the end of the input, lines 481-483, ends the loop
\* the same way)
Quit ==
  /\ Reading
  /\ \E line \in Cmds : Dispatch[line] = "quit"
  /\ pc' = "quit"
  /\ out' = "Goodbye."
  /\ UNCHANGED <<board, white_to_move, nodes_searched, stack, root, ret, moves_played>>

\* lines 488-490
Show ==
  /\ Reading
  /\ \E line \in Cmds : Dispatch[line] = "show"
  /\ out' = "board"
  /\ UNCHANGED <<board, white_to_move, nodes_searched, pc, stack, root, ret,
                 moves_played>>

\* the board and the message a perft command leaves
PerftDone(h) == board' = h.board /\ out' = h.out

\* lines 492-502
Perft ==
  /\ Reading
  /\ \E line \in Cmds :
       /\ Dispatch[line] = "perft"
       /\ PerftDone(perft_cmd(board, white_to_move, split(strip(line))))
  /\ UNCHANGED <<white_to_move, nodes_searched, pc, stack, root, ret, moves_played>>

\* the board, the side to move and the message a move command leaves
MoveDone(h) ==
  /\ board' = h.board
  /\ white_to_move' = h.white_to_move
  /\ out' = h.out
  /\ moves_played' = moves_played + h.played

\* line 509: the counter is reset when a search is started
GoDone(h) ==
  /\ MoveDone(h)
  /\ nodes_searched' = IF h.searched THEN h.nodes ELSE nodes_searched

\* lines 503-522
Go ==
  /\ Reading
  /\ \E line \in Cmds :
       /\ Dispatch[line] = "go"
       /\ GoDone(go_depth(board, white_to_move, split(strip(line))))
  /\ UNCHANGED <<pc, stack, root, ret>>

\* lines 524-554
UserMove ==
  /\ Reading
  /\ \E line \in Cmds :
       /\ Dispatch[line] = "move"
       /\ MoveDone(user_move(board, white_to_move, strip(line)))
  /\ UNCHANGED <<nodes_searched, pc, stack, root, ret>>

Next == Empty \/ Quit \/ Show \/ Perft \/ Go \/ UserMove

Spec == Init /\ [][Next]_vars

\* the squares on which two boards differ
Changed(b1, b2) == {q \in (0..7) \X (0..7) : b1[q[1]][q[2]] # b2[q[1]][q[2]]}

\* C9: the command loop filters the moves that leave the mover's own king in
\* check: whenever a user move command is accepted (the loop shows the board
\* and counts the move), the king of the side that just moved is not
\* attacked on the board the command leaves.
C9_UserMoveKeepsOwnKingSafe ==
  [][(out' = "board" /\ moves_played' = moves_played + 1)
       => ~KingAttacked(board', white_to_move)]_vars

\* C10: every command either leaves the board and the side to move exactly
\* as they were, or applies exactly one move of a piece of the side to move
\* and flips the side to move once.
C10_TurnEnforcement ==
  [][\/ board' = board /\ white_to_move' = white_to_move
     \/ /\ white_to_move' = ~white_to_move
        /\ \E from \in Changed(board, board'), to \in Changed(board, board') :
             /\ IF white_to_move THEN isupper(board[from[1]][from[2]])
                                 ELSE islower(board[from[1]][from[2]])
             /\ board' = Applied(board, <<<<from[1], from[2], to[1], to[2]>>>>)]_vars

\* a user move was turned down after it had been made on the board, in a
\* game in which each side has moved
C10_Witness ==
  /\ out = "Illegal move: king would be in check."
  /\ moves_played >= 2

\* the pieces of a color that have a move onto (r, c) accepted by
\* is_pseudo_legal
Attackers(b, r, c, white) ==
  {q \in (0..7) \X (0..7) :
     /\ IF white THEN isupper(b[q[1]][q[2]]) ELSE islower(b[q[1]][q[2]])
     /\ is_pseudo_legal(b, q[1], q[2], r, c)}

\* C11: on every board the filter works on, for every square holding a piece
\* and the color opposite to that piece, square_is_attacked is true exactly
\* when some piece of that color has a move onto the square accepted by
\* is_pseudo_legal, whichever side is to move; and the answer is_in_check
\* has given for a king on the board is this one for the king's square.
C11_AttackedIffCapturable ==
  /\ \A r \in 0..7, c \in 0..7 :
        board[r][c] # "." =>
          LET by == islower(board[r][c])
          IN  square_is_attacked(board, r, c, by) <=> Attackers(board, r, c, by) # {}
  /\ (pc = "filter" /\ top.at = "tested"
        /\ find_king(board, top.white_to_move) # None) =>
       LET k == find_king(board, top.white_to_move)
       IN  top.incheck <=> Attackers(board, k[1], k[2], ~top.white_to_move) # {}

\* the king of the side that tried a move was found attacked, on a board
\* where a pawn, a knight and a bishop or queen each attack some piece
C11_Witness ==
  /\ pc = "filter" /\ top.at = "tested"
  /\ top.incheck = TRUE
  /\ \A kinds \in {{"P", "p"}, {"N", "n"}, {"B", "b", "Q", "q"}} :
       \E r \in 0..7, c \in 0..7 :
          /\ board[r][c] # "."
          /\ \E q \in Attackers(board, r, c, islower(board[r][c])) :
                board[q[1]][q[2]] \in kinds

\* C12: the legality filter restores the position unconditionally: after
\* every tried move, kept or dropped, and when generate_legal_moves has
\* returned, every square holds what it held at the call; and the test
\* is_in_check (with square_is_attacked under it) leaves the board as the
\* tried move made it.
C12_FilterRestoresBoard ==
  /\ (pc = "filter" /\ top.at \in {"entry", "loop"}) => board = root.board
  /\ (pc = "filter" /\ top.at \in {"made", "tested"}) =>
       board = Applied(root.board, <<top.all[top.i]>>)
  /\ pc = "done" => board = root.board

\* the move tried last was a capture found to leave the king in check, and
\* an earlier move was kept
C12_Witness ==
  /\ pc = "filter" /\ top.at = "loop" /\ top.i > 1
  /\ top.moves # <<>>
  /\ LET m == top.all[top.i - 1]
     IN  /\ root.board[m[3]][m[4]] # "."
         /\ top.moves[Len(top.moves)] # m

\* the place of a move in a list
IndexOf(q, m) == CHOOSE k \in 1..Len(q) : q[k] = m

\* m1 comes before m2 in the captures-first order of the legal moves of b:
\* captures before quiet moves, generation order within each group
Before(b, legal, m1, m2) ==
  LET cap1 == b[m1[3]][m1[4]] # "."
      cap2 == b[m2[3]][m2[4]] # "."
  IN  \/ cap1 /\ ~cap2
      \/ cap1 = cap2 /\ IndexOf(legal, m1) < IndexOf(legal, m2)

\* the full-width value of a root move
MoveValue(b, d, w, m) == Minimax(make_move_on_board(b, m).board, d - 1, ~w)

\* the k-th legal move, of value v, against the result r: v is not beyond
\* the returned score, it is the score if the move is the one returned, and
\* a move with the score does not come before the one returned
MoveJudged(b, w, legal, r, k, v) ==
  /\ IF w THEN v <= r.value ELSE v >= r.value
  /\ legal[k] = r.best_move => v = r.value
  /\ v = r.value => ~Before(b, legal, legal[k], r.best_move)

\* the result r names the first of the best legal moves
FirstOfBest(b, d, w, legal, r) ==
  /\ r.best_move \in Range(legal)
  /\ \A k \in 1..Len(legal) :
       MoveJudged(b, w, legal, r, k, MoveValue(b, d, w, legal[k]))

\* C13: at depth >= 1 with the root window, alphabeta returns no move exactly
\* when the side to move has no legal move; otherwise the move returned is a
\* legal move of the root position whose value is the returned score, that
\* score is the extremal one (greatest for white, least for black), and no
\* move of the same value comes before it in the captures-first order.
C13_BestMove ==
  (pc = "done" /\ root.fn = "alphabeta" /\ root.depth >= 1) =>
    /\ ret.best_move = None
         <=> generate_legal_moves(root.board, root.white_to_move) = <<>>
    /\ ret.best_move # None =>
         FirstOfBest(root.board, root.depth, root.white_to_move,
                     generate_legal_moves(root.board, root.white_to_move), ret)

\* a search of depth 2 returned a capture although a quiet move of the same
\* value is generated before it
C13_Witness ==
  /\ pc = "done" /\ root.fn = "alphabeta" /\ root.depth = 2
  /\ ret.best_move # None
  /\ root.board[ret.best_move[3]][ret.best_move[4]] # "."
  /\ LET legal == generate_legal_moves(root.board, root.white_to_move)
     IN  \E m \in Range(legal) :
            /\ root.board[m[3]][m[4]] = "."
            /\ IndexOf(legal, m) < IndexOf(legal, ret.best_move)
            /\ MoveValue(root.board, 2, root.white_to_move, m) = ret.value

(***************************************************************************)
(* Legal play: from a position of a game, the side to move plays any move  *)
(* generate_legal_moves gives it, and the turn passes.                     *)
(***************************************************************************)
MaxPlayPly == 3

\* the position after a line of moves from the start, each of them drawn
\* from generate_legal_moves, or None if one of them is not
RECURSIVE PlayLegal(_, _, _)
PlayLegal(b, w, line) ==
  IF line = <<>> THEN [board |-> b, white_to_move |-> w]
  ELSE IF Head(line) \notin Range(generate_legal_moves(b, w)) THEN None
  ELSE PlayLegal(make_move_on_board(b, Head(line)).board, ~w, Tail(line))

\* the games played so far: none, and 1. e4 d5 2. Nf3 Bg4 3. Bb5+
PlayLines ==
  { <<>>,
    << <<6, 4, 4, 4>>, <<1, 3, 3, 3>>, <<7, 6, 5, 5>>, <<0, 2, 4, 6>>,
       <<7, 5, 3, 1>> >> }

InitPlay ==
  /\ root \in {PlayLegal(starting_board, TRUE, line) : line \in PlayLines}
  /\ root # None
  /\ board = root.board
  /\ white_to_move = root.white_to_move
  /\ nodes_searched = 0
  /\ pc = "play"
  /\ stack = <<>>
  /\ ret = None
  /\ out = None
  /\ moves_played = 0

\* lines 230-245 and 250-255: a legal move is made and the turn passes
Play ==
  /\ pc = "play"
  /\ moves_played < MaxPlayPly
  /\ \E m \in Range(generate_legal_moves(board, white_to_move)) :
       board' = make_move_on_board(board, m).board
  /\ white_to_move' = ~white_to_move
  /\ moves_played' = moves_played + 1
  /\ UNCHANGED <<nodes_searched, pc, stack, root, ret, out>>

NextPlay == Play

SpecPlay == InitPlay /\ [][NextPlay]_vars

\* C14: in every position of legal play from the standard starting position
\* (white first, the sides alternating, every move drawn from
\* generate_legal_moves) the board holds exactly one K and exactly one k,
\* and the king of the side that has just moved is not attacked.
C14_OneKingEach ==
  /\ Count(board, "K") = 1
  /\ Count(board, "k") = 1
  /\ ~KingAttacked(board, ~white_to_move)

\* a capture has been made that gives check: the side to move has lost a
\* piece and its king is attacked
C14_Witness ==
  /\ pc = "play" /\ moves_played >= 2
  /\ KingAttacked(board, white_to_move)
  /\ Cardinality({q \in (0..7) \X (0..7) : board[q[1]][q[2]] # "."}) < 32

\* the move a command in coordinate notation names, or None if the command
\* is not of that form
NamedMove(cmd) ==
  IF Len(cmd) = 4 /\ cmd[1] \in files /\ cmd[3] \in files
     /\ isdigit(cmd[2]) /\ isdigit(cmd[4])
  THEN <<8 - (ord(cmd[2]) - 48), ord(cmd[1]) - 97,
         8 - (ord(cmd[4]) - 48), ord(cmd[3]) - 97>>
  ELSE None

\* what the loop answers to a command that names the legal move m: the move
\* is applied, the side to move flips and the board is shown
Accepted(b, w, m, h) ==
  /\ h.out = "board"
  /\ h.board = Applied(b, <<m>>)
  /\ h.white_to_move = ~w

\* C15: the command loop accepts every legal move: in every state in which
\* the loop reads a command, a command in coordinate notation that names a
\* move of generate_legal_moves for the board and the side to move is
\* accepted, applied and followed by a flip of the side to move, also when
\* the move puts the opponent's king in check.
C15_LegalMoveAccepted ==
  (pc = "loop" /\ moves_played < MaxPly) =>
    \A line \in Cmds :
       (/\ NamedMove(strip(line)) # None
        /\ NamedMove(strip(line))
             \in Range(generate_legal_moves(board, white_to_move)))
       => Accepted(board, white_to_move, NamedMove(strip(line)),
                   user_move(board, white_to_move, strip(line)))

=============================================================================
